---- MODULE Spec2Model ----
(***************************************************************************)
(* HitBoxDiscovery.py: the upload loop, parse_json and the two plotting    *)
(* loops of the MedRx HitBox viewer, as a state machine.                    *)
(*                                                                          *)
(* One run of the Streamlit script is one behaviour: the uploaded files are *)
(* fixed at Init, ProcessFile is one iteration of the upload loop (lines    *)
(* 72-80), PlotAudiometry one iteration of the loop of lines 86-98 and      *)
(* PlotRem one iteration of the inner loop of lines 111-125.  An exception  *)
(* nothing catches ends the script: pc = "crashed" and exc says what was    *)
(* raised and where.                                                        *)
(*                                                                          *)
(* No targets file is uploaded (targets_file is None, lines 48-66), so      *)
(* nl3_targets is None and lines 126-127 draw nothing.  The legend of a     *)
(* file is the default the text input of line 74 offers.                    *)
(***************************************************************************)
EXTENDS Integers, Sequences, FiniteSets, TLC

VARIABLES uploaded_files, file_idx, data_store, errors, pc, exc,
          entry_idx, rem_index, calls,
          freq, levels_right, levels_left,
          hit_freqs, input_levels, output_levels

vars == <<uploaded_files, file_idx, data_store, errors, pc, exc,
          entry_idx, rem_index, calls,
          freq, levels_right, levels_left,
          hit_freqs, input_levels, output_levels>>

(***************************************************************************)
(* Decoded JSON values (what json.loads returns), tagged by kind.  Python's *)
(* None is the decoded JSON null.  An object is a function from its keys.   *)
(* Strings occur only as values (never where the code expects a container). *)
(***************************************************************************)
Null == [t |-> "null"]
None == Null
Num(n) == [t |-> "num", n |-> n]
Str(s) == [t |-> "str", s |-> s]
List(items) == [t |-> "list", items |-> items]
Obj(f) == [t |-> "obj", f |-> f]
EmptyObj == Obj(<<>>)

\* The outcome of a Python expression: a value, or an exception raised.
Ok(v) == [ok |-> TRUE, v |-> v]
Raise(e) == [ok |-> FALSE, exc |-> e]

\* bool(v)
Truthy(v) ==
  CASE v.t = "null" -> FALSE
    [] v.t = "num" -> v.n # 0
    [] v.t = "str" -> v.s # ""
    [] v.t = "list" -> v.items # <<>>
    [] v.t = "obj" -> DOMAIN v.f # {}

\* key in c
In(key, c) ==
  CASE c.t = "obj" -> Ok(key \in DOMAIN c.f)
    [] c.t = "list" -> Ok(\E i \in 1..Len(c.items) : c.items[i] = Str(key))
    [] c.t \in {"null", "num"} -> Raise("TypeError")

\* c[key], key a string
Subscript(c, key) ==
  CASE c.t = "obj" -> IF key \in DOMAIN c.f THEN Ok(c.f[key]) ELSE Raise("KeyError")
    [] c.t \in {"list", "null", "num"} -> Raise("TypeError")

\* c[i], i a 0-based integer
Index(c, i) ==
  CASE c.t = "list" -> IF i < Len(c.items) THEN Ok(c.items[i + 1]) ELSE Raise("IndexError")
    [] c.t = "obj" -> Raise("KeyError")
    [] c.t \in {"null", "num"} -> Raise("TypeError")

\* c.get(key, default)
Get(c, key, default) ==
  CASE c.t = "obj" -> Ok(IF key \in DOMAIN c.f THEN c.f[key] ELSE default)
    [] c.t \in {"list", "null", "num", "str"} -> Raise("AttributeError")

\* len(c)
PyLen(c) ==
  CASE c.t = "list" -> Ok(Len(c.items))
    [] c.t = "obj" -> Ok(Cardinality(DOMAIN c.f))
    [] c.t \in {"null", "num"} -> Raise("TypeError")

\* for x in c: the elements iterated
Iter(c) ==
  CASE c.t = "list" -> Ok(c.items)
    [] c.t \in {"null", "num"} -> Raise("TypeError")

(***************************************************************************)
(* clean_json, lines 11-14.  An uploaded text is a BOM flag and a body: a   *)
(* JSON document, or Garbage (text json.loads does not accept).             *)
(***************************************************************************)
Garbage == [t |-> "garbage"]
Text(bom, body) == [bom |-> bom, body |-> body]

\* json_text.replace(BOM, ''), line 13
strip_bom(json_text) == [json_text EXCEPT !.bom = FALSE]

\* json.loads on a str: a leading BOM is rejected, as is text that is no JSON
json_loads(json_text) ==
  IF json_text.bom \/ json_text.body = Garbage
  THEN Raise("JSONDecodeError")
  ELSE Ok(json_text.body)

clean_json(json_text) == json_loads(strip_bom(json_text))

(***************************************************************************)
(* parse_json, lines 17-40.                                                 *)
(***************************************************************************)
\* line 18 without its second test: 'Sessions' not in json_data
missing_sessions_key_only(json_data) ==
  LET has == In("Sessions", json_data) IN
  IF ~has.ok THEN has ELSE Ok(~has.v)

\* line 18: 'Sessions' not in json_data or not json_data['Sessions']
missing_sessions(json_data) ==
  LET has == In("Sessions", json_data) IN
  IF ~has.ok THEN has
  ELSE IF ~has.v THEN Ok(TRUE)
  ELSE Ok(~Truthy(json_data.f.Sessions))

\* lines 30, 37 taking the last element: DataSets[-1]
first_data_set_last(DataSets) ==
  IF DataSets.t = "list"
  THEN IF DataSets.items = <<>> THEN Raise("IndexError")
       ELSE Ok(DataSets.items[Len(DataSets.items)])
  ELSE Ok(DataSets)

\* lines 30, 37: DataSets[0] if isinstance(DataSets, list) else DataSets
first_data_set(DataSets) ==
  IF DataSets.t = "list" THEN Index(DataSets, 0) ELSE Ok(DataSets)

\* lines 30-31, 37-38: data_set.get('Data', {}).get('Collection', [])
data_set_collection(session) ==
  LET DataSets == Subscript(session, "DataSets") IN
  IF ~DataSets.ok THEN DataSets
  ELSE LET data_set == first_data_set(DataSets.v) IN
       IF ~data_set.ok THEN data_set
       ELSE LET data == Get(data_set.v, "Data", EmptyObj) IN
            IF ~data.ok THEN data
            ELSE Get(data.v, "Collection", List(<<>>))

\* lines 27-31 (position 0) and 34-38 (position 1)
extract_session(Sessions, session_count, position) ==
  IF session_count >= position + 1
  THEN LET session == Index(Sessions, position) IN
       IF ~session.ok THEN session
       ELSE LET has == In("DataSets", session.v) IN
            IF ~has.ok THEN has
            ELSE IF has.v THEN data_set_collection(session.v) ELSE Ok(None)
  ELSE Ok(None)

extract_session1(Sessions, session_count) == extract_session(Sessions, session_count, 0)

\* lines 34-38 nested under line 29's test of session 1
extract_session2_nested(Sessions, session_count) ==
  LET session1 == Index(Sessions, 0) IN
  IF session1.ok /\ session1.v.t = "obj" /\ "DataSets" \in DOMAIN session1.v.f
  THEN extract_session(Sessions, session_count, 1)
  ELSE Ok(None)

extract_session2(Sessions, session_count) == extract_session(Sessions, session_count, 1)

\* The result of a call: what it raised ("none" when it returned), whether it
\* called st.error, and the pair it returned.
ParseResult(e, error, audiometry, hit_data) ==
  [exc |-> e, error |-> error, audiometry |-> audiometry, hit_data |-> hit_data]

parse_json(json_data) ==
  LET missing == missing_sessions(json_data) IN
  IF ~missing.ok THEN ParseResult(missing.exc, FALSE, None, None)
  ELSE IF missing.v THEN ParseResult("none", TRUE, None, None)
  ELSE LET Sessions == Subscript(json_data, "Sessions") IN
       IF ~Sessions.ok THEN ParseResult(Sessions.exc, FALSE, None, None)
       ELSE LET session_count == PyLen(Sessions.v) IN
            IF ~session_count.ok THEN ParseResult(session_count.exc, FALSE, None, None)
            ELSE LET audiometry == extract_session1(Sessions.v, session_count.v) IN
                 IF ~audiometry.ok THEN ParseResult(audiometry.exc, FALSE, None, None)
                 ELSE LET hit_data == extract_session2(Sessions.v, session_count.v) IN
                      IF ~hit_data.ok THEN ParseResult(hit_data.exc, FALSE, audiometry.v, None)
                      ELSE ParseResult("none", FALSE, audiometry.v, hit_data.v)

(***************************************************************************)
(* The audiometry series of one stored file, lines 88-96.                   *)
(***************************************************************************)
Series(e, f, r, l) == [exc |-> e, freq |-> f, levels_right |-> r, levels_left |-> l]

\* line 90 without its first test: 'Collection' in item
has_points_only(item) == In("Collection", item)

\* line 90: 'Earside' in item and 'Collection' in item
has_ear_and_points(item) ==
  LET ear == In("Earside", item) IN
  IF ~ear.ok THEN ear
  ELSE IF ~ear.v THEN Ok(FALSE) ELSE In("Collection", item)

\* line 93 testing the other ear: item['Earside'] != 'Left'
is_not_left(item) ==
  LET ear == Subscript(item, "Earside") IN
  IF ~ear.ok THEN ear ELSE Ok(ear.v # Str("Left"))

\* line 93: item['Earside'] == 'Right'
is_right(item) ==
  LET ear == Subscript(item, "Earside") IN
  IF ~ear.ok THEN ear ELSE Ok(ear.v = Str("Right"))

\* lines 92-96, one point of one ear group
append_point(acc, item, point) ==
  LET frequency == Subscript(point, "Frequency") IN
  IF ~frequency.ok THEN [acc EXCEPT !.exc = frequency.exc]
  ELSE LET acc1 == [acc EXCEPT !.freq = Append(@, frequency.v)]
           right == is_right(item)
       IN IF ~right.ok THEN [acc1 EXCEPT !.exc = right.exc]
          ELSE LET level == Subscript(point, "Level") IN
               IF ~level.ok THEN [acc1 EXCEPT !.exc = level.exc]
               ELSE IF right.v
                    THEN [acc1 EXCEPT !.levels_right = Append(@, level.v)]
                    ELSE [acc1 EXCEPT !.levels_left = Append(@, level.v)]

\* lines 91-96: for point in item['Collection'], from the j-th point on
RECURSIVE append_points(_, _, _, _)
append_points(acc, item, points, j) ==
  IF acc.exc # "none" \/ j > Len(points) THEN acc
  ELSE append_points(append_point(acc, item, points[j]), item, points, j + 1)

\* lines 90-96, one ear group
append_item(acc, item) ==
  LET both == has_ear_and_points(item) IN
  IF ~both.ok THEN [acc EXCEPT !.exc = both.exc]
  ELSE IF ~both.v THEN acc
  ELSE LET collection == Subscript(item, "Collection") IN
       IF ~collection.ok THEN [acc EXCEPT !.exc = collection.exc]
       ELSE LET points == Iter(collection.v) IN
            IF ~points.ok THEN [acc EXCEPT !.exc = points.exc]
            ELSE append_points(acc, item, points.v, 1)

\* lines 89-96: for item in audiometry, from the i-th item on
RECURSIVE append_items(_, _, _)
append_items(acc, items, i) ==
  IF acc.exc # "none" \/ i > Len(items) THEN acc
  ELSE append_items(append_item(acc, items[i]), items, i + 1)

\* lines 88-96
audiometry_series(audiometry) ==
  LET items == Iter(audiometry) IN
  IF ~items.ok THEN Series(items.exc, <<>>, <<>>, <<>>)
  ELSE append_items(Series("none", <<>>, <<>>, <<>>), items.v, 1)

(***************************************************************************)
(* The probe curves of one stored file, lines 113-123.                      *)
(***************************************************************************)
Curves(e, f, i, o) == [exc |-> e, hit_freqs |-> f, input_levels |-> i, output_levels |-> o]
Curve(e, f, i, o) == [exc |-> e, freq_list |-> f, input_list |-> i, output_list |-> o]

\* lines 118-120, one point of one probe item
append_probe_point(acc, point) ==
  LET frequency == Subscript(point, "Frequency") IN
  IF ~frequency.ok THEN [acc EXCEPT !.exc = frequency.exc]
  ELSE LET input == Subscript(point, "Input") IN
       IF ~input.ok
       THEN [acc EXCEPT !.exc = input.exc, !.freq_list = Append(@, frequency.v)]
       ELSE LET output == Subscript(point, "Output") IN
            IF ~output.ok
            THEN [acc EXCEPT !.exc = output.exc, !.freq_list = Append(@, frequency.v),
                             !.input_list = Append(@, input.v)]
            ELSE [acc EXCEPT !.freq_list = Append(@, frequency.v),
                             !.input_list = Append(@, input.v),
                             !.output_list = Append(@, output.v)]

\* lines 117-120: for point in points, from the j-th point on
RECURSIVE append_probe_points(_, _, _)
append_probe_points(acc, points, j) ==
  IF acc.exc # "none" \/ j > Len(points) THEN acc
  ELSE append_probe_points(append_probe_point(acc, points[j]), points, j + 1)

\* lines 115-123, one probe item
append_probe_item(acc, item) ==
  LET points == Get(item, "Points", List(<<>>)) IN
  IF ~points.ok THEN [acc EXCEPT !.exc = points.exc]
  ELSE LET iterated == Iter(points.v) IN
       IF ~iterated.ok THEN [acc EXCEPT !.exc = iterated.exc]
       ELSE LET curve == append_probe_points(Curve("none", <<>>, <<>>, <<>>), iterated.v, 1) IN
            IF curve.exc # "none" THEN [acc EXCEPT !.exc = curve.exc]
            ELSE [acc EXCEPT !.hit_freqs = Append(@, curve.freq_list),
                             !.input_levels = Append(@, curve.input_list),
                             !.output_levels = Append(@, curve.output_list)]

\* lines 114-123: for item in hit_data, from the i-th item on
RECURSIVE append_probe_items(_, _, _)
append_probe_items(acc, items, i) ==
  IF acc.exc # "none" \/ i > Len(items) THEN acc
  ELSE append_probe_items(append_probe_item(acc, items[i]), items, i + 1)

\* lines 113-123
probe_curves(hit_data) ==
  LET items == Iter(hit_data) IN
  IF ~items.ok THEN Curves(items.exc, <<>>, <<>>, <<>>)
  ELSE append_probe_items(Curves("none", <<>>, <<>>, <<>>), items.v, 1)

(***************************************************************************)
(* The calls into numpy and matplotlib, lines 97-98 and 125.                *)
(***************************************************************************)
\* np.array(a) - np.array(b): elementwise, a one-element array is broadcast,
\* other unequal lengths do not broadcast
np_subtract(a, b) ==
  IF \E k \in 1..Len(a) : a[k].t # "num" THEN Raise("TypeError")
  ELSE IF \E k \in 1..Len(b) : b[k].t # "num" THEN Raise("TypeError")
  ELSE IF Len(a) = Len(b) THEN Ok([k \in 1..Len(a) |-> Num(a[k].n - b[k].n)])
  ELSE IF Len(a) = 1 THEN Ok([k \in 1..Len(b) |-> Num(a[1].n - b[k].n)])
  ELSE IF Len(b) = 1 THEN Ok([k \in 1..Len(a) |-> Num(a[k].n - b[1].n)])
  ELSE Raise("ValueError")

\* ax.semilogx(x, y): x and y must have the same first dimension
semilogx_raises(x, y) == Len(x) # Len(y)

\* One call of ax.semilogx, as the chart it is drawn on (0 the audiometry chart,
\* k the REM k chart), its label and its data.
Call(chart, legend, curve, x, y) ==
  [chart |-> chart, legend |-> legend, curve |-> curve, x |-> x, y |-> y]

\* line 109: range(3)
RemCharts == 3

\* lines 125, 130: f"REM {rem_index+1}"
RemLabel(k) == <<"REM 1", "REM 2", "REM 3">>[k]

\* lines 124-125: the curve drawn on chart rem_index + 1, if any.  drawn says
\* whether semilogx was called, x and y with what.
RemPlot(e, drawn, x, y) == [exc |-> e, drawn |-> drawn, x |-> x, y |-> y]

\* lines 124-125 with the chart's number as the index: hit_freqs[rem_index + 1]
rem_plot_one_based(curves, index) ==
  IF index + 1 < Len(curves.hit_freqs)
  THEN LET gain == np_subtract(curves.output_levels[index + 2], curves.input_levels[index + 2]) IN
       IF ~gain.ok THEN RemPlot(gain.exc, FALSE, <<>>, <<>>)
       ELSE RemPlot(IF semilogx_raises(curves.hit_freqs[index + 2], gain.v)
                    THEN "ValueError" ELSE "none",
                    TRUE, curves.hit_freqs[index + 2], gain.v)
  ELSE RemPlot("none", FALSE, <<>>, <<>>)

rem_plot(curves, index) ==
  IF index < Len(curves.hit_freqs)
  THEN LET gain == np_subtract(curves.output_levels[index + 1], curves.input_levels[index + 1]) IN
       IF ~gain.ok THEN RemPlot(gain.exc, FALSE, <<>>, <<>>)
       ELSE RemPlot(IF semilogx_raises(curves.hit_freqs[index + 1], gain.v)
                    THEN "ValueError" ELSE "none",
                    TRUE, curves.hit_freqs[index + 1], gain.v)
  ELSE RemPlot("none", FALSE, <<>>, <<>>)

(***************************************************************************)
(* The script, lines 68-133.                                                *)
(***************************************************************************)
\* An uploaded file: its name "<stem>.json", whether its bytes are UTF-8, and
\* the text they decode to.
File(stem, utf8, json_text) ==
  [name |-> [stem |-> stem, ext |-> "json"], utf8 |-> utf8, text |-> json_text]

\* line 76: file.read().decode('utf-8')
read_text(file) == IF file.utf8 THEN Ok(file.text) ELSE Raise("UnicodeDecodeError")

\* line 74: the legend's default, file_name.split('.')[0]
default_legend(file_name) == file_name.stem

NoExc == [type |-> "none", at |-> "none"]
Raised(type, at) == [type |-> type, at |-> at]

Entry(file_name, legend, audiometry, hit_data) ==
  [file_name |-> file_name, legend |-> legend, audiometry |-> audiometry,
   hit_data |-> hit_data]

\* lines 83, 107: any(x is not None for ... in data_store)
any_audiometry(store) == \E k \in 1..Len(store) : store[k].audiometry # None
any_hit_data(store) == \E k \in 1..Len(store) : store[k].hit_data # None

\* lines 72-80, one uploaded file
ProcessFile ==
  /\ pc = "files"
  /\ file_idx < Len(uploaded_files)
  /\ file_idx' = file_idx + 1
  /\ LET file == uploaded_files[file_idx + 1]
         json_text == read_text(file)
     IN IF ~json_text.ok
        THEN /\ pc' = "crashed"
             /\ exc' = Raised(json_text.exc, "read")
             /\ UNCHANGED <<data_store, errors>>
        ELSE LET json_data == clean_json(json_text.v) IN
             IF ~json_data.ok
             THEN /\ pc' = "crashed"
                  /\ exc' = Raised(json_data.exc, "clean_json")
                  /\ UNCHANGED <<data_store, errors>>
             ELSE LET parsed == parse_json(json_data.v) IN
                  IF parsed.exc # "none"
                  THEN /\ pc' = "crashed"
                       /\ exc' = Raised(parsed.exc, "parse_json")
                       /\ UNCHANGED <<data_store, errors>>
                  ELSE /\ data_store' = Append(data_store,
                            Entry(file.name, default_legend(file.name),
                                  parsed.audiometry, parsed.hit_data))
                       /\ errors' = IF parsed.error THEN Append(errors, file.name) ELSE errors
                       /\ UNCHANGED <<pc, exc>>
  /\ UNCHANGED <<uploaded_files, entry_idx, rem_index, calls, freq, levels_right,
                 levels_left, hit_freqs, input_levels, output_levels>>

\* lines 80-83 and 107: the upload loop is over
EndOfFiles ==
  /\ pc = "files"
  /\ file_idx = Len(uploaded_files)
  /\ pc' = IF any_audiometry(data_store) THEN "audiometry"
           ELSE IF any_hit_data(data_store) THEN "rem" ELSE "done"
  /\ UNCHANGED <<uploaded_files, file_idx, data_store, errors, exc, entry_idx,
                 rem_index, calls, freq, levels_right, levels_left, hit_freqs,
                 input_levels, output_levels>>

\* lines 86-98, one stored file
PlotAudiometry ==
  /\ pc = "audiometry"
  /\ entry_idx < Len(data_store)
  /\ entry_idx' = entry_idx + 1
  /\ LET entry == data_store[entry_idx + 1] IN
     IF ~Truthy(entry.audiometry)
     THEN UNCHANGED <<pc, exc, calls, freq, levels_right, levels_left>>
     ELSE LET series == audiometry_series(entry.audiometry)
              right == Call(0, entry.legend, "Right Ear", series.freq, series.levels_right)
              left == Call(0, entry.legend, "Left Ear", series.freq, series.levels_left)
          IN /\ freq' = series.freq
             /\ levels_right' = series.levels_right
             /\ levels_left' = series.levels_left
             /\ IF series.exc # "none"
                THEN /\ pc' = "crashed"
                     /\ exc' = Raised(series.exc, "audiometry_series")
                     /\ calls' = calls
                ELSE IF semilogx_raises(series.freq, series.levels_right)
                THEN /\ pc' = "crashed"
                     /\ exc' = Raised("ValueError", "audiometry_plot")
                     /\ calls' = Append(calls, right)
                ELSE IF semilogx_raises(series.freq, series.levels_left)
                THEN /\ pc' = "crashed"
                     /\ exc' = Raised("ValueError", "audiometry_plot")
                     /\ calls' = calls \o <<right, left>>
                ELSE /\ calls' = calls \o <<right, left>>
                     /\ UNCHANGED <<pc, exc>>
  /\ UNCHANGED <<uploaded_files, file_idx, data_store, errors, rem_index,
                 hit_freqs, input_levels, output_levels>>

\* lines 99-107: the audiometry chart is shown
EndOfAudiometry ==
  /\ pc = "audiometry"
  /\ entry_idx = Len(data_store)
  /\ pc' = IF any_hit_data(data_store) THEN "rem" ELSE "done"
  /\ entry_idx' = 0
  /\ UNCHANGED <<uploaded_files, file_idx, data_store, errors, exc, rem_index,
                 calls, freq, levels_right, levels_left, hit_freqs, input_levels,
                 output_levels>>

\* lines 111-125, one stored file on the chart of rem_index
PlotRem ==
  /\ pc = "rem"
  /\ entry_idx < Len(data_store)
  /\ entry_idx' = entry_idx + 1
  /\ LET entry == data_store[entry_idx + 1] IN
     IF ~Truthy(entry.hit_data)
     THEN UNCHANGED <<pc, exc, calls, hit_freqs, input_levels, output_levels>>
     ELSE LET curves == probe_curves(entry.hit_data) IN
          /\ hit_freqs' = curves.hit_freqs
          /\ input_levels' = curves.input_levels
          /\ output_levels' = curves.output_levels
          /\ IF curves.exc # "none"
             THEN /\ pc' = "crashed"
                  /\ exc' = Raised(curves.exc, "probe_curves")
                  /\ calls' = calls
             ELSE LET plot == rem_plot(curves, rem_index) IN
                  /\ calls' = IF plot.drawn
                              THEN Append(calls, Call(rem_index + 1, entry.legend,
                                                      RemLabel(rem_index + 1), plot.x, plot.y))
                              ELSE calls
                  /\ IF plot.exc # "none"
                     THEN /\ pc' = "crashed"
                          /\ exc' = Raised(plot.exc, "rem_plot")
                     ELSE UNCHANGED <<pc, exc>>
  /\ UNCHANGED <<uploaded_files, file_idx, data_store, errors, rem_index,
                 freq, levels_right, levels_left>>

\* lines 126-133 and 109: the chart of rem_index is shown, the next one begins
EndOfRem ==
  /\ pc = "rem"
  /\ entry_idx = Len(data_store)
  /\ IF rem_index + 1 < RemCharts
     THEN /\ rem_index' = rem_index + 1
          /\ entry_idx' = 0
          /\ pc' = pc
     ELSE /\ pc' = "done"
          /\ UNCHANGED <<rem_index, entry_idx>>
  /\ UNCHANGED <<uploaded_files, file_idx, data_store, errors, exc, calls, freq,
                 levels_right, levels_left, hit_freqs, input_levels, output_levels>>

Next ==
  \/ ProcessFile
  \/ EndOfFiles
  \/ PlotAudiometry
  \/ EndOfAudiometry
  \/ PlotRem
  \/ EndOfRem

\* The state when the script starts on a batch of uploaded files.
Start(files) ==
  /\ uploaded_files = files
  /\ file_idx = 0
  /\ data_store = <<>>
  /\ errors = <<>>
  /\ pc = "files"
  /\ exc = NoExc
  /\ entry_idx = 0
  /\ rem_index = 0
  /\ calls = <<>>
  /\ freq = <<>>
  /\ levels_right = <<>>
  /\ levels_left = <<>>
  /\ hit_freqs = <<>>
  /\ input_levels = <<>>
  /\ output_levels = <<>>

(***************************************************************************)
(* The documents the specifications upload.                                 *)
(***************************************************************************)
MaxFiles == 3
MaxSessions == 3
MaxDataSets == 2
MaxGroups == 3
MaxPoints == 1
MaxItems == 4
MaxProbePoints == 2

SeqsUpTo(S, n) == UNION {[1..k -> S] : k \in 0..n}

\* A key an object does not have.
Absent == [t |-> "absent"]

\* The object of the fields that are not Absent.
Object(fields) ==
  Obj([k \in {key \in DOMAIN fields : fields[key] # Absent} |-> fields[k]])

AudiometryPoint(frequency, level) ==
  Object([Frequency |-> Num(frequency), Level |-> Num(level)])
ProbePoint(frequency, input, output) ==
  Object([Frequency |-> Num(frequency), Input |-> Num(input), Output |-> Num(output)])
EarGroup(earside, collection) == Object([Earside |-> earside, Collection |-> collection])
ProbeItem(points) == Object([Points |-> points])
DataSet(collection) == Object([Data |-> Object([Collection |-> collection])])
Session(DataSets) == Object([DataSets |-> DataSets])
Document(Sessions) == Object([Sessions |-> Sessions])

\* One uploaded file per text, named 1.json, 2.json, ... in upload order.
Upload(texts) == [i \in 1..Len(texts) |-> File(i, texts[i].utf8, texts[i].text)]
Valid(document) == [utf8 |-> TRUE, text |-> Text(FALSE, document)]

\* The end-to-end document of the specification's testable properties.
EndToEndAudiometry ==
  List(<<EarGroup(Str("Right"), List(<<AudiometryPoint(250, 10), AudiometryPoint(500, 15)>>)),
         EarGroup(Str("Left"), List(<<AudiometryPoint(250, 12), AudiometryPoint(500, 18)>>))>>)
EndToEndProbe == List(<<ProbeItem(List(<<ProbePoint(1000, 50, 62)>>))>>)
EndToEndDoc ==
  Document(List(<<Session(List(<<DataSet(EndToEndAudiometry)>>)),
                  Session(DataSet(EndToEndProbe))>>))

\* Probe curves only: session 0 carries no DataSets.
TwoCurves ==
  List(<<ProbeItem(List(<<ProbePoint(1000, 50, 62), ProbePoint(2000, 50, 70)>>)),
         ProbeItem(List(<<ProbePoint(1000, 65, 80)>>))>>)
ProbeOnlyDoc == Document(List(<<EmptyObj, Session(List(<<DataSet(TwoCurves)>>))>>))

\* A probe curve with two frequencies and one input level, and a whole curve.
ShortInputCurve ==
  List(<<ProbeItem(List(<<ProbePoint(1000, 50, 62),
                          Object([Frequency |-> Num(2000), Output |-> Num(70)])>>)),
         ProbeItem(List(<<ProbePoint(1000, 65, 80)>>))>>)
ShortInputDoc == Document(List(<<EmptyObj, Session(DataSet(ShortInputCurve))>>))

\* One Right ear group and nothing else.
RightOnlyDoc ==
  Document(List(<<Session(DataSet(List(<<EarGroup(Str("Right"),
                                                  List(<<AudiometryPoint(250, 10)>>))>>)))>>))

\* An audiometry collection with no points, and no second session.
NoPointsDoc == Document(List(<<Session(DataSet(List(<<EarGroup(Str("Left"), List(<<>>))>>)))>>))

NoSessionsDoc == Document(Absent)

BatchTexts ==
  {Valid(EndToEndDoc), Valid(ProbeOnlyDoc), Valid(ShortInputDoc), Valid(RightOnlyDoc),
   Valid(NoPointsDoc), Valid(NoSessionsDoc),
   [utf8 |-> TRUE, text |-> Text(TRUE, ProbeOnlyDoc)],
   [utf8 |-> TRUE, text |-> Text(FALSE, Garbage)],
   [utf8 |-> FALSE, text |-> Text(FALSE, Garbage)]}

\* Batches of one to MaxFiles uploaded files.
Init == \E texts \in SeqsUpTo(BatchTexts, MaxFiles) : Len(texts) > 0 /\ Start(Upload(texts))

Spec == Init /\ [][Next]_vars

(***************************************************************************)
(* One document whose keys are missing, extra, empty or null at each level. *)
(***************************************************************************)
\* An item both plotting loops accept: an ear group without points that is a
\* probe item of one point as well.
CollectionA ==
  List(<<Object([Earside |-> Str("Right"), Collection |-> List(<<>>),
                 Points |-> List(<<ProbePoint(1000, 50, 62)>>)])>>)
CollectionB ==
  List(<<ProbeItem(List(<<ProbePoint(1000, 65, 80)>>)), ProbeItem(Absent)>>)

DataSetPool ==
  {Null, EmptyObj, Object([Data |-> Null]), Object([Data |-> EmptyObj]),
   DataSet(Null), DataSet(List(<<>>)),
   Object([Name |-> Str("extra"), Data |-> Object([Collection |-> CollectionA])]),
   DataSet(CollectionB)}

\* The elements after the first of a DataSets list.
DataSetTail == {Null, DataSet(CollectionB)}

DataSetLists ==
  {<<>>} \cup {<<first>> \o rest : first \in DataSetPool,
                                   rest \in SeqsUpTo(DataSetTail, MaxDataSets - 1)}

DataSetsPool == {Absent} \cup DataSetPool \cup {List(list) : list \in DataSetLists}

SessionPool == {Session(DataSets) : DataSets \in DataSetsPool}

\* The sessions after the two that parse_json reads.
SessionTail == {EmptyObj, Session(DataSet(CollectionA))}

SessionLists ==
  {pair[1] \o pair[2] :
     pair \in {q \in SeqsUpTo(SessionPool, 2) \X SeqsUpTo(SessionTail, MaxSessions - 2) :
                 Len(q[2]) > 0 => Len(q[1]) = 2}}

ParseDocs ==
  {Document(Sessions) :
     Sessions \in {Absent, Null, EmptyObj} \cup {List(list) : list \in SessionLists}}

InitParse == \E document \in ParseDocs : Start(Upload(<<Valid(document)>>))

SpecParse == InitParse /\ [][Next]_vars

(***************************************************************************)
(* One document whose audiometry collection ranges over the ear groups.     *)
(* Group g's j-th point is measured at 250 * j Hz with level 10 * g + j, so *)
(* that every level of a document is its own.                               *)
(***************************************************************************)
GroupShapes == [ear : {"absent", "Right", "Left", "Both"}, points : -1..MaxPoints]

GroupOf(shape, g) ==
  EarGroup(IF shape.ear = "absent" THEN Absent ELSE Str(shape.ear),
           IF shape.points < 0 THEN Absent
           ELSE List([j \in 1..shape.points |-> AudiometryPoint(250 * j, 10 * g + j)]))

AudiometryOf(shapes) == List([g \in 1..Len(shapes) |-> GroupOf(shapes[g], g)])

InitAudiometry ==
  \E shapes \in SeqsUpTo(GroupShapes, MaxGroups) :
     Start(Upload(<<Valid(Document(List(<<Session(List(<<DataSet(AudiometryOf(shapes))>>)),
                                          Session(DataSet(EndToEndProbe))>>)))>>))

SpecAudiometry == InitAudiometry /\ [][Next]_vars

(***************************************************************************)
(* One document whose probe collection ranges over the probe items.  Item   *)
(* i's j-th point is measured at 1000 * j Hz with input 50 + j and output   *)
(* 50 + j + 10 * i + j, so that every gain of a document is its own.        *)
(***************************************************************************)
ItemOf(points, i) ==
  ProbeItem(IF points < 0 THEN Absent
            ELSE List([j \in 1..points |-> ProbePoint(1000 * j, 50 + j, 50 + j + 10 * i + j)]))

ProbeOf(shapes) == List([i \in 1..Len(shapes) |-> ItemOf(shapes[i], i)])

InitRem ==
  \E shapes \in SeqsUpTo(-1..MaxProbePoints, MaxItems), bare \in BOOLEAN :
     Start(Upload(<<Valid(Document(List(<<
        Session(DataSet(List(<<>>))),
        Session(IF bare THEN DataSet(ProbeOf(shapes))
                ELSE List(<<DataSet(ProbeOf(shapes))>>))>>)))>>))

SpecRem == InitRem /\ [][Next]_vars

(***************************************************************************)
(* Two documents that differ only in how a session's DataSets is written:   *)
(* a bare object, or a list beginning with that object.                     *)
(***************************************************************************)
ReprDataSet == {DataSet(CollectionA), DataSet(CollectionB), Object([Data |-> Null])}

ReprTail == {DataSet(CollectionB), Object([Data |-> Null])}

ReprDataSets ==
  ReprDataSet \cup {List(<<first>> \o rest) : first \in ReprDataSet,
                                             rest \in SeqsUpTo(ReprTail, MaxDataSets - 1)}

ReprSessions == {EmptyObj} \cup {Session(DataSets) : DataSets \in ReprDataSets}

ReprDocs ==
  {Document(List(list)) : list \in [1..1 -> ReprSessions] \cup [1..2 -> ReprSessions]}

\* The data set a DataSets node stands for, whichever way it is written.
Canonical(DataSets) ==
  IF DataSets.t = "list" /\ DataSets.items # <<>> THEN DataSets.items[1] ELSE DataSets

HasDataSets(session) == session.t = "obj" /\ "DataSets" \in DOMAIN session.f
LacksDataSets(session) == session.t = "obj" /\ "DataSets" \notin DOMAIN session.f

SameSession(s1, s2) ==
  \/ s1 = s2
  \/ /\ HasDataSets(s1)
     /\ HasDataSets(s2)
     /\ DOMAIN s1.f = DOMAIN s2.f
     /\ Canonical(s1.f.DataSets) = Canonical(s2.f.DataSets)
     /\ Canonical(s1.f.DataSets).t = "obj"

\* d1 and d2 have the same sessions, up to the writing of DataSets.
SameButWrapping(d1, d2) ==
  /\ "Sessions" \in DOMAIN d1.f
  /\ "Sessions" \in DOMAIN d2.f
  /\ d1.f.Sessions.t = "list"
  /\ d2.f.Sessions.t = "list"
  /\ Len(d1.f.Sessions.items) = Len(d2.f.Sessions.items)
  /\ \A i \in 1..Len(d1.f.Sessions.items) :
        SameSession(d1.f.Sessions.items[i], d2.f.Sessions.items[i])

InitRepr ==
  \E d1 \in ReprDocs, d2 \in ReprDocs :
     SameButWrapping(d1, d2) /\ Start(Upload(<<Valid(d1), Valid(d2)>>))

SpecRepr == InitRepr /\ [][Next]_vars

(***************************************************************************)
(* What the claims speak of.                                                *)
(***************************************************************************)
\* The document uploaded file k decodes to, when it decodes.
Decodable(k) == uploaded_files[k].utf8 /\ uploaded_files[k].text.body # Garbage
DocumentOf(k) == uploaded_files[k].text.body

\* The upload loop has stored the extraction of file k.
Stored(k) == k <= Len(data_store)

\* The sessions of a document that has some.
SessionsOf(document) ==
  IF "Sessions" \in DOMAIN document.f /\ document.f.Sessions.t = "list"
  THEN document.f.Sessions.items ELSE <<>>

HasNoSessions(document) ==
  \/ "Sessions" \notin DOMAIN document.f
  \/ document.f.Sessions \in {Null, List(<<>>), EmptyObj}

\* The session carries a series: its data set is an object whose Data is an
\* object whose Collection is a list.
HasSeries(session) ==
  /\ HasDataSets(session)
  /\ Canonical(session.f.DataSets).t = "obj"
  /\ "Data" \in DOMAIN Canonical(session.f.DataSets).f
  /\ Canonical(session.f.DataSets).f.Data.t = "obj"
  /\ "Collection" \in DOMAIN Canonical(session.f.DataSets).f.Data.f
  /\ Canonical(session.f.DataSets).f.Data.f.Collection.t = "list"
SeriesIn(session) == Canonical(session.f.DataSets).f.Data.f.Collection

RECURSIVE Flatten(_)
Flatten(lists) == IF lists = <<>> THEN <<>> ELSE Head(lists) \o Flatten(Tail(lists))

Range(seq) == {seq[i] : i \in 1..Len(seq)}

(***************************************************************************)
(* C1.  parse_json never raises, whatever keys of the decoded document are  *)
(* missing, extra, empty or null: the script never ends on an exception     *)
(* raised inside parse_json.  The code breaks this (DataSets: [] raises     *)
(* IndexError, Data: null raises AttributeError).                           *)
(***************************************************************************)
C1_ParseJsonNeverRaises == ~(pc = "crashed" /\ exc.at = "parse_json")

(***************************************************************************)
(* C2.  Every uploaded document with zero sessions (no 'Sessions' key, or   *)
(* an empty or null value) is stored with both fields None, and st.error    *)
(* was called for it; parse_json did not raise on it.                       *)
(***************************************************************************)
C2_ZeroSessions ==
  \A k \in 1..file_idx :
     (Decodable(k) /\ HasNoSessions(DocumentOf(k))) =>
        /\ Stored(k)
        /\ data_store[k].audiometry = None
        /\ data_store[k].hit_data = None
        /\ \E e \in 1..Len(errors) : errors[e] = uploaded_files[k].name

C2_Witness ==
  /\ file_idx = 1
  /\ DocumentOf(1) = Document(List(<<>>))
  /\ Stored(1)
  /\ data_store[1].audiometry = None
  /\ errors = <<uploaded_files[1].name>>

(***************************************************************************)
(* C3.  Batch isolation: when the script has ended and some uploaded file   *)
(* could not be decoded, every other file of the batch, before or after it, *)
(* has its extraction in data_store.  The code breaks this: the decoding    *)
(* error ends the script at that file.                                      *)
(***************************************************************************)
C3_BatchIsolation ==
  (/\ pc \in {"done", "crashed"}
   /\ \A k \in 1..Len(uploaded_files) : uploaded_files[k].utf8
   /\ \E k \in 1..Len(uploaded_files) : ~Decodable(k)) =>
     \A k \in 1..Len(uploaded_files) :
        Decodable(k) => \E e \in 1..Len(data_store) :
                           data_store[e].file_name = uploaded_files[k].name

(***************************************************************************)
(* C4.  Dimension check: no series whose parallel lists differ in length is *)
(* passed to semilogx, and building or plotting a series never ends the     *)
(* script.  The code breaks this: it has no such check.                     *)
(***************************************************************************)
C4_MismatchExcluded ==
  /\ \A c \in 1..Len(calls) : Len(calls[c].x) = Len(calls[c].y)
  /\ ~(pc = "crashed" /\ exc.at \in {"audiometry_series", "audiometry_plot",
                                      "probe_curves", "rem_plot"})

(***************************************************************************)
(* C5.  Index-aligned reconstruction: when the series of a stored file have *)
(* been built from a Right group and a Left group measured at the same      *)
(* frequencies, freq is that frequency list once, as long as levels_right   *)
(* and levels_left.  The code breaks this: freq holds the list twice.       *)
(***************************************************************************)
SeriesBuilt ==
  /\ entry_idx >= 1
  /\ \/ pc = "audiometry"
     \/ pc = "crashed" /\ exc.at \in {"audiometry_series", "audiometry_plot"}
  /\ Truthy(data_store[entry_idx].audiometry)

FrequenciesOf(group) ==
  [j \in 1..Len(group.f.Collection.items) |-> group.f.Collection.items[j].f.Frequency]
LevelsOf(group) ==
  [j \in 1..Len(group.f.Collection.items) |-> group.f.Collection.items[j].f.Level]

RightAndLeft(audiometry) ==
  /\ Len(audiometry.items) = 2
  /\ \A g \in 1..2 : {"Earside", "Collection"} \subseteq DOMAIN audiometry.items[g].f
  /\ audiometry.items[1].f.Earside = Str("Right")
  /\ audiometry.items[2].f.Earside = Str("Left")
  /\ FrequenciesOf(audiometry.items[1]) = FrequenciesOf(audiometry.items[2])
  /\ FrequenciesOf(audiometry.items[1]) # <<>>

C5_IndexAligned ==
  /\ (SeriesBuilt /\ RightAndLeft(data_store[entry_idx].audiometry)) =>
        /\ freq = FrequenciesOf(data_store[entry_idx].audiometry.items[1])
        /\ Len(freq) = Len(levels_right)
        /\ Len(freq) = Len(levels_left)
  /\ (SeriesBuilt /\ data_store[entry_idx].audiometry = EndToEndAudiometry) =>
        /\ freq = <<Num(250), Num(500)>>
        /\ levels_right = <<Num(10), Num(15)>>
        /\ levels_left = <<Num(12), Num(18)>>

(***************************************************************************)
(* C6.  Representation invariance: two uploaded documents that differ only  *)
(* in that a session's DataSets is a bare object in one and a list whose    *)
(* first element is that object in the other (whatever follows it in the    *)
(* list) are stored with the same audiometry and the same hit_data, and     *)
(* parse_json returns for the second whenever it returned for the first.    *)
(***************************************************************************)
C6_WrappingInvariant ==
  (file_idx = 2 /\ Decodable(1) /\ Decodable(2)
     /\ SameButWrapping(DocumentOf(1), DocumentOf(2))) =>
        /\ Stored(2)
        /\ data_store[1].audiometry = data_store[2].audiometry
        /\ data_store[1].hit_data = data_store[2].hit_data

C6_Witness ==
  /\ file_idx = 2
  /\ Stored(2)
  /\ SameButWrapping(DocumentOf(1), DocumentOf(2))
  /\ SessionsOf(DocumentOf(1))[1] = Session(DataSet(CollectionA))
  /\ SessionsOf(DocumentOf(2))[1] =
        Session(List(<<DataSet(CollectionA), DataSet(CollectionB)>>))
  /\ data_store[2].audiometry = CollectionA

(***************************************************************************)
(* C7.  Ear groups that lack 'Earside' or 'Collection' are skipped: once    *)
(* the series of a stored file are built, no level of such a group is in    *)
(* levels_right or levels_left, freq is the frequencies of the other groups *)
(* in input order, every level of the other groups is in one of the two     *)
(* level lists, and building the series raised nothing.                     *)
(***************************************************************************)
Groups == data_store[entry_idx].audiometry.items

HasBoth(group) == {"Earside", "Collection"} \subseteq DOMAIN group.f

C7_UntaggedGroupsSkipped ==
  SeriesBuilt =>
     /\ ~(pc = "crashed" /\ exc.at = "audiometry_series")
     /\ \A g \in 1..Len(Groups) :
           (~HasBoth(Groups[g]) /\ "Collection" \in DOMAIN Groups[g].f) =>
              Range(LevelsOf(Groups[g])) \cap (Range(levels_right) \cup Range(levels_left)) = {}
     /\ freq = Flatten([g \in 1..Len(Groups) |->
                          IF HasBoth(Groups[g]) THEN FrequenciesOf(Groups[g]) ELSE <<>>])
     /\ \A g \in 1..Len(Groups) :
           HasBoth(Groups[g]) =>
              Range(LevelsOf(Groups[g])) \subseteq (Range(levels_right) \cup Range(levels_left))

\* A group with points and no ear tag between two groups that have both.
C7_Witness ==
  /\ SeriesBuilt
  /\ Len(Groups) = 3
  /\ HasBoth(Groups[1])
  /\ DOMAIN Groups[2].f = {"Collection"}
  /\ HasBoth(Groups[3])
  /\ \A g \in 1..3 : Len(Groups[g].f.Collection.items) = 1
  /\ freq = FrequenciesOf(Groups[1]) \o FrequenciesOf(Groups[3])
  /\ levels_right \o levels_left \in
        {LevelsOf(Groups[1]) \o LevelsOf(Groups[3]), LevelsOf(Groups[3]) \o LevelsOf(Groups[1])}

(***************************************************************************)
(* C10.  Ear bucketing is binary on 'Right': once the series of a stored    *)
(* file are built, levels_right is the levels of the groups tagged 'Right'  *)
(* and levels_left the levels of the groups with any other tag, each in     *)
(* input order, over the groups that have both keys; and freq is as long as *)
(* the two level lists together.                                            *)
(***************************************************************************)
C10_BinaryOnRight ==
  SeriesBuilt =>
     /\ levels_right = Flatten([g \in 1..Len(Groups) |->
                                  IF HasBoth(Groups[g]) /\ Groups[g].f.Earside = Str("Right")
                                  THEN LevelsOf(Groups[g]) ELSE <<>>])
     /\ levels_left = Flatten([g \in 1..Len(Groups) |->
                                 IF HasBoth(Groups[g]) /\ Groups[g].f.Earside # Str("Right")
                                 THEN LevelsOf(Groups[g]) ELSE <<>>])
     /\ Len(freq) = Len(levels_right) + Len(levels_left)

\* A group tagged neither 'Left' nor 'Right' went to the Left list.
C10_Witness ==
  /\ SeriesBuilt
  /\ Len(Groups) = 3
  /\ \A g \in 1..3 : HasBoth(Groups[g]) /\ Len(Groups[g].f.Collection.items) = 1
  /\ Groups[1].f.Earside = Str("Both")
  /\ Groups[2].f.Earside = Str("Right")
  /\ Groups[3].f.Earside = Str("Left")
  /\ levels_left = LevelsOf(Groups[1]) \o LevelsOf(Groups[3])
  /\ levels_right = LevelsOf(Groups[2])

(***************************************************************************)
(* C8.  Probe curves keep item order and are labelled by position: once the *)
(* curves of a stored file are built there is one per item, in item order,  *)
(* each with its points in order; every curve drawn on the REM k chart is   *)
(* labelled 'REM k' and is the gain of the k-th item of the file it is      *)
(* drawn for, k in 1..3; and when the script is done each file has exactly  *)
(* one curve on the REM k chart if it has a k-th item, and none otherwise.  *)
(***************************************************************************)
CurvesBuilt ==
  /\ entry_idx >= 1
  /\ \/ pc = "rem"
     \/ pc = "done"
     \/ pc = "crashed" /\ exc.at \in {"probe_curves", "rem_plot"}
  /\ Truthy(data_store[entry_idx].hit_data)

PointsOf(item) == IF "Points" \in DOMAIN item.f THEN item.f.Points.items ELSE <<>>

ItemFrequencies(item) == [j \in 1..Len(PointsOf(item)) |-> PointsOf(item)[j].f.Frequency]
ItemInputs(item) == [j \in 1..Len(PointsOf(item)) |-> PointsOf(item)[j].f.Input]
ItemOutputs(item) == [j \in 1..Len(PointsOf(item)) |-> PointsOf(item)[j].f.Output]
ItemGains(item) ==
  [j \in 1..Len(PointsOf(item)) |->
     Num(PointsOf(item)[j].f.Output.n - PointsOf(item)[j].f.Input.n)]

\* The probe items of the stored file with the given legend.
ItemsOf(legend) ==
  LET entry == CHOOSE e \in Range(data_store) : e.legend = legend IN
  IF Truthy(entry.hit_data) THEN entry.hit_data.items ELSE <<>>

RemCalls(legend, k) ==
  {c \in 1..Len(calls) : calls[c].chart = k /\ calls[c].legend = legend}

C8_RemByPosition ==
  /\ CurvesBuilt =>
        LET items == data_store[entry_idx].hit_data.items IN
        /\ hit_freqs = [i \in 1..Len(items) |-> ItemFrequencies(items[i])]
        /\ input_levels = [i \in 1..Len(items) |-> ItemInputs(items[i])]
        /\ output_levels = [i \in 1..Len(items) |-> ItemOutputs(items[i])]
  /\ \A c \in 1..Len(calls) :
        calls[c].chart # 0 =>
           /\ calls[c].chart \in 1..3
           /\ calls[c].curve = RemLabel(calls[c].chart)
           /\ calls[c].chart <= Len(ItemsOf(calls[c].legend))
           /\ calls[c].x = ItemFrequencies(ItemsOf(calls[c].legend)[calls[c].chart])
           /\ calls[c].y = ItemGains(ItemsOf(calls[c].legend)[calls[c].chart])
  /\ pc = "done" =>
        \A e \in 1..Len(data_store) : \A k \in 1..3 :
           Cardinality(RemCalls(data_store[e].legend, k)) =
              IF k <= Len(ItemsOf(data_store[e].legend)) THEN 1 ELSE 0

\* A file of four probe items is done: three curves drawn, the fourth never.
C8_Witness ==
  /\ pc = "done"
  /\ Len(ItemsOf(1)) = 4
  /\ \A i \in 1..4 : Len(PointsOf(ItemsOf(1)[i])) = 2
  /\ Len(calls) = 3
  /\ \A k \in 1..3 : calls[k].y = ItemGains(ItemsOf(1)[k])

(***************************************************************************)
(* C9.  The two fields are independently optional.  A stored document with  *)
(* one session, or whose second session has no 'DataSets', and whose first  *)
(* session carries a series, has that series as audiometry and hit_data     *)
(* None; a stored document whose first session has no 'DataSets' and whose  *)
(* second session carries a series has that series as hit_data and          *)
(* audiometry None.  parse_json raises on neither.                          *)
(***************************************************************************)
C9_IndependentlyOptional ==
  \A k \in 1..file_idx :
     Decodable(k) =>
        LET sessions == SessionsOf(DocumentOf(k)) IN
        /\ (/\ Len(sessions) >= 1
            /\ Len(sessions) = 1 \/ LacksDataSets(sessions[2])
            /\ HasSeries(sessions[1])) =>
               /\ Stored(k)
               /\ data_store[k].audiometry = SeriesIn(sessions[1])
               /\ data_store[k].hit_data = None
        /\ (/\ Len(sessions) >= 2
            /\ LacksDataSets(sessions[1])
            /\ HasSeries(sessions[2])) =>
               /\ Stored(k)
               /\ data_store[k].audiometry = None
               /\ data_store[k].hit_data = SeriesIn(sessions[2])

\* Probe curves without audiometry.
C9_Witness ==
  /\ file_idx = 1
  /\ Stored(1)
  /\ Len(SessionsOf(DocumentOf(1))) = 2
  /\ LacksDataSets(SessionsOf(DocumentOf(1))[1])
  /\ data_store[1].audiometry = None
  /\ data_store[1].hit_data = CollectionB
====
